---- MODULE Spec2Model ----
(***************************************************************************)
(* Model of src/index.js: the hourly MongoDB backup service.               *)
(*                                                                         *)
(* One process evaluates the module (index.js:153-158): it registers the   *)
(* hourly cron job and, when argv holds "now", starts one manual run.      *)
(* runBackup (index.js:66-151) is a chain of callbacks; every await and    *)
(* every exec callback is a point where other runs may be scheduled, so    *)
(* each action below is one synchronous stretch of the code.               *)
(*                                                                         *)
(* Strings are sequences of tokens (a token is one character or one fixed  *)
(* piece of text), so template strings are concatenations.  Time is        *)
(* counted in minutes (the code compares milliseconds), and local time is  *)
(* taken to be UTC.                                                        *)
(*                                                                         *)
(* Spec          the process from its start, on a filesystem that does not *)
(*               throw; one older date folder lies under BACKUP_DIR.       *)
(* SpecRetention the same actions for one run, with up to MaxSeeded older  *)
(*               folders of several ages and fs calls that may throw.      *)
(* SpecPath      runBackup entered at arbitrary instants, for the path     *)
(*               computation alone.                                        *)
(* SpecLive      one run, on a filesystem that may throw, with every call  *)
(*               of the run eventually completing.                         *)
(* SpecOverlap   the process with two runs that may be in flight at once   *)
(*               (the manual run and a timer run, or two timer runs),      *)
(*               every folder older than the current instant being expired *)
(*               (RETENTION_DAYS "0").                                     *)
(***************************************************************************)
EXTENDS Integers, Sequences, FiniteSets, TLC

VARIABLES
    env,        \* process.env as destructured at index.js:12-26
    argv,       \* TRUE iff process.argv includes "now"
    fsThrows,   \* TRUE iff fs calls of the cleanup may throw in this behaviour
    booted,     \* TRUE once the module body (index.js:153-160) has run
    now,        \* wall clock, minutes since the epoch
    dirs,       \* immediate children of BACKUP_DIR: name -> [mtime, hours, files]
    runs        \* one record per runBackup invocation

config == <<env, argv, fsThrows>>

vars == <<env, argv, fsThrows, booted, now, dirs, runs>>

---------------------------------------------------------------------------
(* Bounds of the model *)

MaxRuns == 1          \* runBackup invocations per behaviour, in Spec
MaxMinute == 1        \* minutes the clock may advance inside one hour
MaxSeeded == 3        \* folders earlier runs left behind, in SpecRetention
MaxPathRuns == 3      \* runBackup invocations per behaviour, in SpecPath
SeedAge == 2          \* age in days of the folder an earlier run left, in Spec

---------------------------------------------------------------------------
(* Strings *)

DigitChar == <<"0", "1", "2", "3", "4", "5", "6", "7", "8", "9">>

IsDigit(c) == \E i \in 1..10 : DigitChar[i] = c

DigitVal(c) == (CHOOSE i \in 1..10 : DigitChar[i] = c) - 1

\* String(n) for a non-negative integer
RECURSIVE ToDigits(_)
ToDigits(n) ==
    IF n < 10 THEN <<DigitChar[n + 1]>>
    ELSE ToDigits(n \div 10) \o <<DigitChar[(n % 10) + 1]>>

\* s.padStart(2, "0")
RECURSIVE PadStart2(_)
PadStart2(s) == IF Len(s) >= 2 THEN s ELSE PadStart2(<<"0">> \o s)

\* parseInt(s): the value of the leading run of digits, NaN when there is none
NaN == 0 - 1

RECURSIVE ParseDigits(_, _)
ParseDigits(s, acc) ==
    IF s = <<>> \/ ~IsDigit(Head(s)) THEN acc
    ELSE ParseDigits(Tail(s), acc * 10 + DigitVal(Head(s)))

ParseInt(s) ==
    IF s = <<>> \/ ~IsDigit(Head(s)) THEN NaN ELSE ParseDigits(s, 0)

\* whether sub occurs in text as a contiguous run of tokens
Contains(text, sub) ==
    \E i \in 0..(Len(text) - Len(sub)) :
        \A j \in 1..Len(sub) : text[i + j] = sub[j]

\* path.join(a, b)
PathJoin(a, b) == a \o <<"/">> \o b

---------------------------------------------------------------------------
(* Clock *)

MinutesPerHour == 60
MinutesPerDay == 24 * MinutesPerHour

\* now.toISOString().split("T")[0]: the calendar day, rendered at fixed width
IsoDate(t) == PadStart2(ToDigits(t \div MinutesPerDay))

\* String(now.getHours()).padStart(2, "0")
HourOf(t) == PadStart2(ToDigits((t % MinutesPerDay) \div MinutesPerHour))

\* String(now.getMinutes()).padStart(2, "0")
MinuteOf(t) == PadStart2(ToDigits(t % MinutesPerHour))

\* the next firing of the cron pattern "0 * * * *"
NextHour(t) == ((t \div MinutesPerHour) + 1) * MinutesPerHour

---------------------------------------------------------------------------
(* Configuration *)

BACKUP_DIR == <<"/root/sensio-backup-db">>

ALERT_EMAIL == "ALERT_EMAIL"

\* values of RETENTION_DAYS: nothing is kept, or one day is
RetentionChoices == { <<"0">>, <<"1">> }

Envs ==
    [ BACKUP_MONGO_URI : BOOLEAN,        \* secondary connection string set
      RETENTION_DAYS   : RetentionChoices,
      CLOUDINARY       : BOOLEAN,        \* object-storage credentials set
      EMAIL            : BOOLEAN ]       \* mail-relay settings and recipient set

DumpErrs == {"dump: connection refused"}
RepErrs == {"restore: not authorized"}
Stdouts == {<<>>, <<"restored">>}

\* if (BACKUP_MONGO_URI) at index.js:110
ReplicationAlways(e) == TRUE

ReplicationEnabled(e) == e.BACKUP_MONGO_URI

\* parseInt(RETENTION_DAYS) * 24 * 60 * 60 * 1000, in minutes
RetentionMs(e) ==
    IF ParseInt(e.RETENTION_DAYS) = NaN THEN NaN
    ELSE ParseInt(e.RETENTION_DAYS) * MinutesPerDay

---------------------------------------------------------------------------
(* Filesystem below BACKUP_DIR *)

NoDirs == [x \in {} |-> [mtime |-> 0, hours |-> {}, files |-> {}]]

\* fs.mkdirSync(path.join(BACKUP_DIR, date, hour), { recursive: true }) at time t:
\* a directory's mtime changes when an entry is added to it
MkdirSync(d, date, hour, t) ==
    IF date \notin DOMAIN d
    THEN [x \in DOMAIN d \cup {date} |->
            IF x = date THEN [mtime |-> t, hours |-> {hour}, files |-> {}] ELSE d[x]]
    ELSE IF hour \notin d[date].hours
    THEN [d EXCEPT ![date] = [@ EXCEPT !.mtime = t, !.hours = @ \cup {hour}]]
    ELSE d

\* mongodump --archive=<file>: the file appears in the hour folder if it is there
WriteArchive(d, date, hour, file) ==
    IF date \in DOMAIN d /\ hour \in d[date].hours
    THEN [d EXCEPT ![date] = [@ EXCEPT !.files = @ \cup {file}]]
    ELSE d

\* fs.rmSync(fullPath, { recursive: true, force: true })
RmSync(d, name) == [x \in DOMAIN d \ {name} |-> d[x]]

FileExists(d, date, file) == date \in DOMAIN d /\ file \in d[date].files

\* the orders in which fs.readdirSync(BACKUP_DIR) may list the entries
RECURSIVE Orderings(_)
Orderings(S) ==
    IF S = {} THEN {<<>>}
    ELSE UNION { { <<x>> \o p : p \in Orderings(S \ {x}) } : x \in S }

ReaddirSync(d) == Orderings(DOMAIN d)

\* the comparison with <= in place of <
IsOldOrAtCutoff(mtime, t, retentionMs) ==
    retentionMs # NaN /\ mtime <= t - retentionMs

\* fs.statSync(fullPath).mtimeMs < Date.now() - retentionMs  (false when NaN)
IsOld(mtime, t, retentionMs) ==
    retentionMs # NaN /\ mtime < t - retentionMs

\* the forEach body with a try/catch of its own: the entry that throws is
\* passed over and the scan goes on
RECURSIVE ScanSkippingFailures(_, _, _, _, _, _)
ScanSkippingFailures(listing, i, d, t, retentionMs, failAt) ==
    IF i > Len(listing) THEN [dirs |-> d, threw |-> failAt <= Len(listing)]
    ELSE IF i = failAt
    THEN ScanSkippingFailures(listing, i + 1, d, t, retentionMs, failAt)
    ELSE IF IsOld(d[listing[i]].mtime, t, retentionMs)
    THEN ScanSkippingFailures(listing, i + 1, RmSync(d, listing[i]), t,
                              retentionMs, failAt)
    ELSE ScanSkippingFailures(listing, i + 1, d, t, retentionMs, failAt)

\* the forEach body over listing[i..]; entry failAt throws (statSync or rmSync)
RECURSIVE Scan(_, _, _, _, _, _)
Scan(listing, i, d, t, retentionMs, failAt) ==
    IF i > Len(listing) THEN [dirs |-> d, threw |-> FALSE]
    ELSE IF i = failAt THEN [dirs |-> d, threw |-> TRUE]
    ELSE IF IsOld(d[listing[i]].mtime, t, retentionMs)
    THEN Scan(listing, i + 1, RmSync(d, listing[i]), t, retentionMs, failAt)
    ELSE Scan(listing, i + 1, d, t, retentionMs, failAt)

\* the try block at index.js:141-149; failAt = 0: readdirSync itself throws,
\* failAt > Len(listing): nothing throws
CleanupOldBackups(d, t, retentionMs, listing, failAt) ==
    IF failAt = 0 THEN [dirs |-> d, threw |-> TRUE]
    ELSE Scan(listing, 1, d, t, retentionMs, failAt)

---------------------------------------------------------------------------
(* One run of runBackup *)

Runs == DOMAIN runs

IdleRun ==
    [ pc |-> "idle", rep |-> "none", trigger |-> "", started |-> 0,
      date |-> <<>>, hour |-> <<>>, timestamp |-> <<>>, archiveFile |-> <<>>,
      log |-> <<>> ]

\* the label at hour granularity
TimestampWithoutMinute(t) == IsoDate(t) \o <<"_">> \o HourOf(t)

\* `${date}_${hour}-${minute}`
Timestamp(t) == IsoDate(t) \o <<"_">> \o HourOf(t) \o <<"-">> \o MinuteOf(t)

\* path.join(BACKUP_DIR, date, hour)
BackupPath(t) == PathJoin(PathJoin(BACKUP_DIR, IsoDate(t)), HourOf(t))

\* path.join(backupPath, `backup_${timestamp}.gz`)
ArchiveFile(t) == PathJoin(BackupPath(t), <<"backup_">> \o Timestamp(t) \o <<".gz">>)

\* new Date().toLocaleString()
LocaleString(t) == IsoDate(t) \o <<" ">> \o HourOf(t) \o <<":">> \o MinuteOf(t)

FailedSubject == "MongoDB Backup Failed"
SuccessSubject == "MongoDB Backup Successful"
FileOnlySubject == "MongoDB File Backup Successful"

IsSuccessSubject(s) == s \in {SuccessSubject, FileOnlySubject}

\* `File backup error:\n${dumpErr.message}`
DumpFailureTextWithoutMessage(msg) == <<"File backup error:\n">>

DumpFailureText(msg) == <<"File backup error:\n", msg>>

\* `Replication error:\n${repErr.message}\n\nOutput:\n${stdout || "none"}`
ReplicationFailureTextWithoutMessage(msg, stdout) ==
    <<"Replication error:\n", "\n\nOutput:\n">>
        \o (IF stdout = <<>> THEN <<"none">> ELSE stdout)

ReplicationFailureText(msg, stdout) ==
    <<"Replication error:\n", msg, "\n\nOutput:\n">>
        \o (IF stdout = <<>> THEN <<"none">> ELSE stdout)

\* `Backup completed\nFile: ${archiveFile}\nDB Replication: Success\nTrigger: ${trigger}`
ReplicationSuccessText(file, trigger) ==
    <<"Backup completed\nFile: ">> \o file
        \o <<"\nDB Replication: Success\nTrigger: ", trigger>>

\* `File backup only\nFile: ${archiveFile}`
FileOnlyTextWithoutFile(file) == <<"File backup only\nFile: ">>

FileOnlyText(file) == <<"File backup only\nFile: ">> \o file

(* Events a run appends to its log, in program order *)

ExecEvent(cmd) == [ev |-> "exec", cmd |-> cmd]

ExitEvent(cmd, err) == [ev |-> "exit", cmd |-> cmd, err |-> err]

\* cloudinary.v2.uploader.upload(archiveFile, {folder, public_id})
UploadEvent(file, timestamp) ==
    [ev |-> "upload", file |-> file, folder |-> "mongodb-backups",
     public_id |-> <<"backup_">> \o timestamp]

UploadReturnEvent(ok) == [ev |-> "upload_return", ok |-> ok]

\* sendEmail(subject, text): the transporter.sendMail call made at time t
SendEmail(subject, text, t) ==
    [ev |-> "sendMail", to |-> ALERT_EMAIL, subject |-> subject,
     text |-> text \o <<"\n\nTime: ">> \o LocaleString(t)]

SendMailReturnEvent(ok) == [ev |-> "sendMail_return", ok |-> ok]

\* what one pass of the cleanup did: the entries it inspected before anything
\* threw, the folders it removed, and whether the catch block was entered
CleanupEvent(t, before, listing, failAt, res) ==
    [ev |-> "cleanup", at |-> t, before |-> before,
     scanned |-> { listing[i] : i \in 1..Len(listing) } \
                 { listing[i] : i \in { j \in 1..Len(listing) : j >= failAt } },
     removed |-> DOMAIN before \ DOMAIN res.dirs,
     threw |-> res.threw]

\* the try/catch around the upload (index.js:98-107) swallows a rejection
ContinuesOnlyAfterUploadSuccess(ok) == ok

ContinuesAfterUpload(ok) == TRUE

\* the dump-failure branch with its return statement left out
NoReturnAfterDumpFailure == FALSE

\* the return after the dump-failure email (index.js:92)
ReturnsAfterDumpFailure == TRUE

\* the replication-failure branch with its return statement left out
NoReturnAfterReplicationFailure == FALSE

\* the return after the replication-failure email (index.js:123)
ReturnsAfterReplicationFailure == TRUE

\* what the outcomes of the external calls may be
UploadOutcomes(e) == IF e.CLOUDINARY THEN BOOLEAN ELSE {FALSE}
SendMailOutcomes(e) == IF e.EMAIL THEN BOOLEAN ELSE {FALSE}

\* runBackup behind a single-run lock: an invocation is skipped while a run
\* is in flight
RunBackupUnlessBusy(r, trigger, t) ==
    /\ runs[r].pc = "idle"
    /\ \A q \in Runs : q < r => runs[q].pc # "idle"
    /\ \A q \in Runs :
          runs[q].pc \in {"idle", "done"} /\ runs[q].rep \in {"none", "done"}
    /\ dirs' = MkdirSync(dirs, IsoDate(t), HourOf(t), t)
    /\ runs' = [runs EXCEPT ![r] =
            [ pc |-> "dump", rep |-> "none", trigger |-> trigger, started |-> t,
              date |-> IsoDate(t), hour |-> HourOf(t),
              timestamp |-> Timestamp(t), archiveFile |-> ArchiveFile(t),
              log |-> <<ExecEvent("dump")>> ]]

\* index.js:70-85: compute the paths, create the folder, start the dump
RunBackup(r, trigger, t) ==
    /\ runs[r].pc = "idle"
    /\ \A q \in Runs : q < r => runs[q].pc # "idle"
    /\ dirs' = MkdirSync(dirs, IsoDate(t), HourOf(t), t)
    /\ runs' = [runs EXCEPT ![r] =
            [ pc |-> "dump", rep |-> "none", trigger |-> trigger, started |-> t,
              date |-> IsoDate(t), hour |-> HourOf(t),
              timestamp |-> Timestamp(t), archiveFile |-> ArchiveFile(t),
              log |-> <<ExecEvent("dump")>> ]]

\* where the cleanup may throw: 0 is readdirSync, i the i-th entry's statSync
\* or rmSync, Len(listing) + 1 nowhere
FailPoints(listing) ==
    IF fsThrows THEN 0..(Len(listing) + 1) ELSE {Len(listing) + 1}

\* the callback ending without the cleanup block
WithoutCleanup(r, pcAfter, repAfter, log) ==
    /\ runs' = [runs EXCEPT ![r] =
            [@ EXCEPT !.pc = pcAfter, !.rep = repAfter, !.log = log]]
    /\ UNCHANGED dirs

\* the cleanup without its try/catch: an error thrown by an fs call leaves the
\* async callback as an unhandled rejection, which ends the process before
\* the replication callback can run
WithCleanupUncaught(r, pcAfter, repAfter, log) ==
    \E listing \in ReaddirSync(dirs) :
      \E failAt \in FailPoints(listing) :
        LET res == CleanupOldBackups(dirs, now, RetentionMs(env), listing, failAt)
        IN  /\ dirs' = res.dirs
            /\ runs' = [runs EXCEPT ![r] =
                    [@ EXCEPT !.pc = pcAfter,
                              !.rep = IF res.threw THEN "done" ELSE repAfter,
                              !.log = log \o
                                <<CleanupEvent(now, dirs, listing, failAt, res)>>]]

\* index.js:139-149 appended to a run whose log already holds `log`
WithCleanup(r, pcAfter, repAfter, log) ==
    \E listing \in ReaddirSync(dirs) :
      \E failAt \in FailPoints(listing) :
        LET res == CleanupOldBackups(dirs, now, RetentionMs(env), listing, failAt)
        IN  /\ dirs' = res.dirs
            /\ runs' = [runs EXCEPT ![r] =
                    [@ EXCEPT !.pc = pcAfter, !.rep = repAfter,
                              !.log = log \o
                                <<CleanupEvent(now, dirs, listing, failAt, res)>>]]

---------------------------------------------------------------------------
(* Initial state: the process has read its environment; earlier backups may *)
(* lie under BACKUP_DIR                                                     *)

\* the process starts at midnight
StartTime == SeedAge * MinutesPerDay

\* date-folders left by runs that started a days before t0, a \in ages
SeededDirs(t0, ages) ==
    [ x \in { IsoDate(t0 - a * MinutesPerDay) : a \in ages } |->
        LET a == CHOOSE a \in ages : IsoDate(t0 - a * MinutesPerDay) = x
            t == t0 - a * MinutesPerDay
        IN  [mtime |-> t, hours |-> {HourOf(t)}, files |-> {ArchiveFile(t)}] ]

Init ==
    /\ env \in Envs
    /\ argv \in BOOLEAN
    /\ fsThrows = FALSE
    /\ booted = FALSE
    /\ now = StartTime
    /\ dirs = SeededDirs(StartTime, {SeedAge})
    /\ runs = [r \in 1..MaxRuns |-> IdleRun]

(* Initial states for the retention scan: one run, RETENTION_DAYS "7" (the  *)
(* default of index.js:17) or not a number, up to MaxSeeded older folders   *)
(* of various ages, and a filesystem that may throw                         *)

SeedAges == {3, 6, 7, 8, 10}

RetentionStart == 10 * MinutesPerDay

InitRetention ==
    /\ env \in [ BACKUP_MONGO_URI : BOOLEAN,
                 RETENTION_DAYS   : { <<"7">>, <<"w", "e", "e", "k">> },
                 CLOUDINARY       : {TRUE},
                 EMAIL            : {TRUE} ]
    /\ argv \in BOOLEAN
    /\ fsThrows \in BOOLEAN
    /\ booted = FALSE
    /\ now = RetentionStart
    /\ dirs \in { SeededDirs(RetentionStart, ages) :
                    ages \in { a \in SUBSET SeedAges : Cardinality(a) <= MaxSeeded } }
    /\ runs = [r \in {1} |-> IdleRun]

(* Initial states for overlapping runs: the manual run and the timer runs   *)
(* share BACKUP_DIR, and RETENTION_DAYS "0" makes every cleanup remove the  *)
(* folders created before the current minute                                *)

OverlapRuns == {1, 2}

InitOverlap ==
    /\ env \in [ BACKUP_MONGO_URI : BOOLEAN,
                 RETENTION_DAYS   : { <<"0">> },
                 CLOUDINARY       : {TRUE},
                 EMAIL            : {TRUE} ]
    /\ argv \in BOOLEAN
    /\ fsThrows = FALSE
    /\ booted = FALSE
    /\ now = StartTime
    /\ dirs = SeededDirs(StartTime, {SeedAge})
    /\ runs = [r \in OverlapRuns |-> IdleRun]

(* Initial states for the progress of one run: any configuration, started   *)
(* by the flag or by the timer                                              *)

LiveRuns == {1}

InitLive ==
    /\ env \in Envs
    /\ argv \in BOOLEAN
    /\ fsThrows \in BOOLEAN
    /\ booted = FALSE
    /\ now = StartTime
    /\ dirs = SeededDirs(StartTime, {SeedAge})
    /\ runs = [r \in LiveRuns |-> IdleRun]

---------------------------------------------------------------------------
(* Actions *)

\* the module body without the argv check
MainWithoutManualRun ==
    /\ ~booted
    /\ booted' = TRUE
    /\ UNCHANGED <<dirs, runs>>
    /\ UNCHANGED <<config, now>>

\* index.js:153-158: cron.schedule(...) and the argv check
Main ==
    /\ ~booted
    /\ booted' = TRUE
    /\ IF argv THEN RunBackup(1, "manual", now) ELSE UNCHANGED <<dirs, runs>>
    /\ UNCHANGED <<config, now>>

\* index.js:154: the clock reaches the next full hour and the cron job fires
CronTick ==
    /\ booted
    /\ now' = NextHour(now)
    /\ \E r \in Runs : RunBackup(r, "cron", now')
    /\ UNCHANGED <<config, booted>>

\* time passes while subprocesses and network calls are in flight
PassMinute ==
    /\ booted
    /\ (now % MinutesPerHour) < MaxMinute
    /\ now' = now + 1
    /\ UNCHANGED <<config, booted, dirs, runs>>

\* the dump callback starting the replication without awaiting the upload
DumpExitNotAwaitingUpload(r) ==
    /\ runs[r].pc = "dump"
    /\ \E err \in DumpErrs \cup {"none"} :
        IF err # "none"
        THEN /\ runs' = [runs EXCEPT ![r] =
                    [@ EXCEPT !.pc = "email_fail",
                              !.log = @ \o <<ExitEvent("dump", err),
                                  SendEmail(FailedSubject, DumpFailureText(err), now)>>]]
             /\ UNCHANGED dirs
        ELSE /\ dirs' = WriteArchive(dirs, runs[r].date, runs[r].hour,
                                     runs[r].archiveFile)
             /\ runs' = [runs EXCEPT ![r] =
                    [@ EXCEPT !.pc = "upload", !.rep = "exec",
                              !.log = @ \o <<ExitEvent("dump", err),
                                  UploadEvent(runs[r].archiveFile,
                                              runs[r].timestamp),
                                  ExecEvent("replicate")>>]]
    /\ UNCHANGED <<config, booted, now>>

\* the dump callback starting the dump again when it failed
DumpExitRetrying(r) ==
    /\ runs[r].pc = "dump"
    /\ \E err \in DumpErrs \cup {"none"} :
        IF err # "none"
        THEN /\ runs' = [runs EXCEPT ![r] =
                    [@ EXCEPT !.log = @ \o <<ExitEvent("dump", err),
                                             ExecEvent("dump")>>]]
             /\ UNCHANGED dirs
        ELSE /\ dirs' = WriteArchive(dirs, runs[r].date, runs[r].hour,
                                     runs[r].archiveFile)
             /\ runs' = [runs EXCEPT ![r] =
                    [@ EXCEPT !.pc = "upload",
                              !.log = @ \o <<ExitEvent("dump", err),
                                  UploadEvent(runs[r].archiveFile,
                                              runs[r].timestamp)>>]]
    /\ UNCHANGED <<config, booted, now>>

\* index.js:85-103: the dump callback up to the upload call
DumpExit(r) ==
    /\ runs[r].pc = "dump"
    /\ \E err \in DumpErrs \cup {"none"} :
        IF err # "none"
        THEN /\ runs' = [runs EXCEPT ![r] =
                    [@ EXCEPT !.pc = "email_fail",
                              !.log = @ \o <<ExitEvent("dump", err),
                                  SendEmail(FailedSubject, DumpFailureText(err), now)>>]]
             /\ UNCHANGED dirs
        ELSE /\ dirs' = WriteArchive(dirs, runs[r].date, runs[r].hour,
                                     runs[r].archiveFile)
             /\ runs' = [runs EXCEPT ![r] =
                    [@ EXCEPT !.pc = "upload",
                              !.log = @ \o <<ExitEvent("dump", err),
                                  UploadEvent(runs[r].archiveFile,
                                              runs[r].timestamp)>>]]
    /\ UNCHANGED <<config, booted, now>>

\* index.js:104-137: where the dump callback stands once the upload has
\* settled with outcome ok at time t, and whether it goes on into the cleanup
\* block in the same stretch (it does when the replication was started)
UploadSettled(run, ok, e, t) ==
    LET log1 == run.log \o <<UploadReturnEvent(ok)>>
    IN  IF ~ContinuesAfterUpload(ok)
        THEN [pc |-> "done", rep |-> run.rep, log |-> log1, cleanup |-> FALSE]
        ELSE IF ReplicationEnabled(e)
        THEN [pc |-> "done", rep |-> "exec",
              log |-> log1 \o <<ExecEvent("replicate")>>, cleanup |-> TRUE]
        ELSE [pc |-> "email_ok", rep |-> run.rep,
              log |-> log1 \o <<SendEmail(FileOnlySubject,
                                          FileOnlyText(run.archiveFile), t)>>,
              cleanup |-> FALSE]

\* index.js:104-149: the upload settles; replication is started or the
\* file-only email is sent; with replication the cleanup follows at once
UploadReturn(r) ==
    /\ runs[r].pc = "upload"
    /\ \E ok \in UploadOutcomes(env) :
        LET next == UploadSettled(runs[r], ok, env, now)
        IN  IF next.cleanup
            THEN WithCleanup(r, next.pc, next.rep, next.log)
            ELSE /\ runs' = [runs EXCEPT ![r] =
                        [@ EXCEPT !.pc = next.pc, !.rep = next.rep,
                                  !.log = next.log]]
                 /\ UNCHANGED dirs
    /\ UNCHANGED <<config, booted, now>>

\* sendEmail without its try/catch: a rejected sendMail ends the dump callback
EmailReturnThrowing(r) ==
    /\ runs[r].pc \in {"email_fail", "email_ok"}
    /\ \E ok \in SendMailOutcomes(env) :
        LET log1 == runs[r].log \o <<SendMailReturnEvent(ok)>>
        IN  IF ~ok \/ (runs[r].pc = "email_fail" /\ ReturnsAfterDumpFailure)
            THEN /\ runs' = [runs EXCEPT ![r] =
                        [@ EXCEPT !.pc = "done", !.log = log1]]
                 /\ UNCHANGED dirs
            ELSE IF runs[r].pc = "email_fail"
            THEN /\ runs' = [runs EXCEPT ![r] =
                        [@ EXCEPT !.pc = "upload",
                                  !.log = log1 \o
                                    <<UploadEvent(runs[r].archiveFile,
                                                  runs[r].timestamp)>>]]
                 /\ UNCHANGED dirs
            ELSE WithCleanup(r, "done", runs[r].rep, log1)
    /\ UNCHANGED <<config, booted, now>>

\* index.js:88-92 and 133-149: the awaited sendEmail of the dump callback
\* settles; after a dump failure the callback returns, otherwise it cleans up
EmailReturn(r) ==
    /\ runs[r].pc \in {"email_fail", "email_ok"}
    /\ \E ok \in SendMailOutcomes(env) :
        LET log1 == runs[r].log \o <<SendMailReturnEvent(ok)>>
        IN  IF runs[r].pc = "email_fail" /\ ReturnsAfterDumpFailure
            THEN /\ runs' = [runs EXCEPT ![r] =
                        [@ EXCEPT !.pc = "done", !.log = log1]]
                 /\ UNCHANGED dirs
            ELSE IF runs[r].pc = "email_fail"
            THEN /\ runs' = [runs EXCEPT ![r] =
                        [@ EXCEPT !.pc = "upload",
                                  !.log = log1 \o
                                    <<UploadEvent(runs[r].archiveFile,
                                                  runs[r].timestamp)>>]]
                 /\ UNCHANGED dirs
            ELSE WithCleanup(r, "done", runs[r].rep, log1)
    /\ UNCHANGED <<config, booted, now>>

\* index.js:114-130: the replication callback up to its sendEmail call
ReplicateExit(r) ==
    /\ runs[r].rep = "exec"
    /\ \E err \in RepErrs \cup {"none"}, stdout \in Stdouts :
        runs' = [runs EXCEPT ![r] =
            [@ EXCEPT
               !.rep = IF err # "none" THEN "email_fail" ELSE "email_ok",
               !.log = @ \o <<ExitEvent("replicate", err),
                   IF err # "none"
                   THEN SendEmail(FailedSubject,
                                  ReplicationFailureText(err, stdout), now)
                   ELSE SendEmail(SuccessSubject,
                                  ReplicationSuccessText(runs[r].archiveFile,
                                                         runs[r].trigger), now)>>]]
    /\ UNCHANGED <<config, booted, now, dirs>>

\* index.js:117-130: the awaited sendEmail of the replication callback settles
ReplicateEmailReturn(r) ==
    /\ runs[r].rep \in {"email_fail", "email_ok"}
    /\ \E ok \in SendMailOutcomes(env) :
        LET log1 == runs[r].log \o <<SendMailReturnEvent(ok)>>
        IN  IF runs[r].rep = "email_fail" /\ ~ReturnsAfterReplicationFailure
            THEN runs' = [runs EXCEPT ![r] =
                    [@ EXCEPT !.rep = "email_ok",
                              !.log = log1 \o
                                <<SendEmail(SuccessSubject,
                                    ReplicationSuccessText(runs[r].archiveFile,
                                                           runs[r].trigger), now)>>]]
            ELSE runs' = [runs EXCEPT ![r] =
                    [@ EXCEPT !.rep = "done", !.log = log1]]
    /\ UNCHANGED <<config, booted, now, dirs>>

Next ==
    \/ Main
    \/ CronTick
    \/ PassMinute
    \/ \E r \in Runs : DumpExit(r)
    \/ \E r \in Runs : UploadReturn(r)
    \/ \E r \in Runs : EmailReturn(r)
    \/ \E r \in Runs : ReplicateExit(r)
    \/ \E r \in Runs : ReplicateEmailReturn(r)

Spec == Init /\ [][Next]_vars

SpecRetention == InitRetention /\ [][Next]_vars

SpecOverlap == InitOverlap /\ [][Next]_vars

\* every subprocess and every network call of a run eventually completes: the
\* callback or continuation waiting for it is eventually run by the event loop
CallsComplete ==
    \A r \in LiveRuns :
        /\ WF_vars(DumpExit(r))
        /\ WF_vars(UploadReturn(r))
        /\ WF_vars(EmailReturn(r))
        /\ WF_vars(ReplicateExit(r))
        /\ WF_vars(ReplicateEmailReturn(r))

SpecLive == InitLive /\ [][Next]_vars /\ CallsComplete

---------------------------------------------------------------------------
(* The path computation on its own: runBackup invoked at arbitrary instants *)
(* around a change of day, hour and minute                                  *)

PathStart == 9 * MinutesPerDay + 9 * MinutesPerHour + 9

\* day 9 at 09:09 and the instants one day, one hour and one minute on: the
\* day, the hour and the minute each go from one digit to two
PathTimes ==
    { PathStart + d * MinutesPerDay + h * MinutesPerHour + m :
        d \in {0, 1}, h \in {0, 1}, m \in {0, 1} }

InitPath ==
    /\ env \in [ BACKUP_MONGO_URI : {FALSE}, RETENTION_DAYS : {<<"7">>},
                 CLOUDINARY : {TRUE}, EMAIL : {TRUE} ]
    /\ argv = FALSE
    /\ fsThrows = FALSE
    /\ booted = TRUE
    /\ now = PathStart
    /\ dirs = NoDirs
    /\ runs = [r \in 1..MaxPathRuns |-> IdleRun]

\* index.js:66-85 entered at the current instant
Invoke(r, trigger) ==
    /\ RunBackup(r, trigger, now)
    /\ UNCHANGED <<config, booted, now>>

\* new Date() at index.js:70 reads a later instant
PassTime ==
    /\ \E t \in PathTimes : t > now /\ now' = t
    /\ UNCHANGED <<config, booted, dirs, runs>>

NextPath ==
    \/ \E r \in Runs, trigger \in {"cron", "manual"} : Invoke(r, trigger)
    \/ PassTime

SpecPath == InitPath /\ [][NextPath]_vars

---------------------------------------------------------------------------
(* Reading a run's log *)

Events(r, kind) == SelectSeq(runs[r].log, LAMBDA e : e.ev = kind)

Count(r, kind) == Len(Events(r, kind))

\* position of the first event satisfying Test, 0 when there is none
FirstIndex(log, Test(_)) ==
    IF \E i \in 1..Len(log) : Test(log[i])
    THEN CHOOSE i \in 1..Len(log) : Test(log[i]) /\ \A j \in 1..(i - 1) : ~Test(log[j])
    ELSE 0

IsExit(e, cmd) == e.ev = "exit" /\ e.cmd = cmd
IsExec(e, cmd) == e.ev = "exec" /\ e.cmd = cmd

Has(r, Test(_)) == \E i \in 1..Len(runs[r].log) : Test(runs[r].log[i])

DumpFailed(r) == Has(r, LAMBDA e : IsExit(e, "dump") /\ e.err # "none")
DumpSucceeded(r) == Has(r, LAMBDA e : IsExit(e, "dump") /\ e.err = "none")
UploadFailed(r) == Has(r, LAMBDA e : e.ev = "upload_return" /\ ~e.ok)
ReplicationStarted(r) == Has(r, LAMBDA e : IsExec(e, "replicate"))
ReplicationFailed(r) == Has(r, LAMBDA e : IsExit(e, "replicate") /\ e.err # "none")
ReplicationSucceeded(r) == Has(r, LAMBDA e : IsExit(e, "replicate") /\ e.err = "none")

Mails(r) == Events(r, "sendMail")
FailureMails(r) == SelectSeq(Mails(r), LAMBDA e : e.subject = FailedSubject)
SuccessMails(r) == SelectSeq(Mails(r), LAMBDA e : IsSuccessSubject(e.subject))

\* the dump callback has run to its end
CallbackDone(r) == runs[r].pc = "done"

\* nothing of the run is pending any more
Finished(r) == runs[r].pc = "done" /\ runs[r].rep \in {"none", "done"}

---------------------------------------------------------------------------
(* Claims *)

DumpError(r) ==
    runs[r].log[FirstIndex(runs[r].log, LAMBDA e : IsExit(e, "dump"))].err

ReplicationError(r) ==
    runs[r].log[FirstIndex(runs[r].log, LAMBDA e : IsExit(e, "replicate"))].err

\* C1: in a run whose dump failed there is no upload call, no replication
\* subprocess and no cleanup, and exactly one notification has been sent: a
\* failure notification whose text holds the dump error message.
C1_DumpFailureAborts ==
    \A r \in Runs :
        DumpFailed(r) =>
            /\ Count(r, "upload") = 0
            /\ ~ReplicationStarted(r)
            /\ Count(r, "cleanup") = 0
            /\ Len(Mails(r)) = 1
            /\ Mails(r)[1].subject = FailedSubject
            /\ Contains(Mails(r)[1].text, <<DumpError(r)>>)

C1_Witness ==
    \E r \in Runs : DumpFailed(r) /\ Finished(r) /\ Len(FailureMails(r)) = 1

\* C2: in a run whose replication subprocess failed exactly one notification
\* has been sent: a failure notification whose text holds the replication
\* error message; no success notification is sent.
C2_ReplicationFailureNotifies ==
    \A r \in Runs :
        ReplicationFailed(r) =>
            /\ DumpSucceeded(r)
            /\ env.BACKUP_MONGO_URI
            /\ Len(Mails(r)) = 1
            /\ Mails(r)[1].subject = FailedSubject
            /\ Contains(Mails(r)[1].text, <<ReplicationError(r)>>)
            /\ SuccessMails(r) = <<>>

C2_Witness ==
    \E r \in Runs : ReplicationFailed(r) /\ Finished(r) /\ Len(FailureMails(r)) = 1

\* C3: with no secondary connection string, a run whose dump succeeded never
\* starts a replication subprocess and never sends a failure notification;
\* once it has finished it has sent exactly one success notification, whose
\* text holds the archive file path, and it has run the cleanup.
C3_FileOnlySuccess ==
    \A r \in Runs :
        (DumpSucceeded(r) /\ ~env.BACKUP_MONGO_URI) =>
            /\ ~ReplicationStarted(r)
            /\ FailureMails(r) = <<>>
            /\ Len(Mails(r)) <= 1
            /\ Finished(r) =>
                /\ Len(SuccessMails(r)) = 1
                /\ Contains(SuccessMails(r)[1].text, runs[r].archiveFile)
                /\ runs[r].archiveFile = ArchiveFile(runs[r].started)
                /\ Count(r, "cleanup") = 1

C3_Witness ==
    \E r \in Runs :
        /\ DumpSucceeded(r) /\ ~env.BACKUP_MONGO_URI /\ Finished(r)
        /\ Len(SuccessMails(r)) = 1 /\ Count(r, "cleanup") = 1

\* C4: in a run whose upload call failed, the replication subprocess has been
\* started as soon as the upload has settled when a secondary connection
\* string is configured, and the cleanup has been performed by the time the
\* dump callback ends.
C4_UploadFailureNonFatal ==
    \A r \in Runs :
        UploadFailed(r) =>
            /\ DumpSucceeded(r)
            /\ env.BACKUP_MONGO_URI => ReplicationStarted(r)
            /\ ~env.BACKUP_MONGO_URI => Len(SuccessMails(r)) = 1
            /\ CallbackDone(r) => Count(r, "cleanup") = 1

C4_Witness ==
    \E r \in Runs :
        /\ UploadFailed(r) /\ env.BACKUP_MONGO_URI /\ env.CLOUDINARY
        /\ ReplicationStarted(r) /\ Count(r, "cleanup") = 1

\* C5: a run performs the cleanup at most once; never when its dump failed;
\* and exactly once by the time its dump callback has ended when its dump
\* succeeded, whatever the upload and replication outcomes.
C5_CleanupExactlyOnce ==
    \A r \in Runs :
        /\ Count(r, "cleanup") <= 1
        /\ DumpFailed(r) => Count(r, "cleanup") = 0
        /\ (DumpSucceeded(r) /\ CallbackDone(r)) => Count(r, "cleanup") = 1

C5_Witness ==
    \E r \in Runs :
        /\ UploadFailed(r) /\ ReplicationFailed(r) /\ Finished(r)
        /\ Count(r, "cleanup") = 1

\* C6: the cleanup of a run comes after the replication subprocess has exited
\* when a secondary connection string is configured, after the success
\* notification in a file-only run, and never after a dump failure.
C6_CleanupAfterReplicationOutcome ==
    \A r \in Runs :
        \A i \in 1..Len(runs[r].log) :
            runs[r].log[i].ev = "cleanup" =>
                /\ ~DumpFailed(r)
                /\ IF env.BACKUP_MONGO_URI
                   THEN \E j \in 1..(i - 1) : IsExit(runs[r].log[j], "replicate")
                   ELSE \E j \in 1..(i - 1) :
                            /\ runs[r].log[j].ev = "sendMail"
                            /\ IsSuccessSubject(runs[r].log[j].subject)

\* C8: a run makes at most one notification call, never a success and a
\* failure notification both, and exactly one once nothing of it is pending.
C8_OneEmailPerRun ==
    \A r \in Runs :
        /\ Len(Mails(r)) <= 1
        /\ ~(SuccessMails(r) # <<>> /\ FailureMails(r) # <<>>)
        /\ Finished(r) => Len(Mails(r)) = 1

C8_Witness ==
    \E r \in Runs :
        /\ Finished(r) /\ ReplicationSucceeded(r)
        /\ Len(SuccessMails(r)) = 1 /\ FailureMails(r) = <<>>

---------------------------------------------------------------------------
(* Retention (checked under SpecRetention) *)

Cleanups(r) == Events(r, "cleanup")

\* RETENTION_DAYS read as a decimal number of days; defined only when it is one
IsNumber(str) == \E n \in 0..99 : ToDigits(n) = str
NumberOf(str) == CHOOSE n \in 0..99 : ToDigits(n) = str

\* age of a folder, in whole days and left-over minutes, when the scan ran
OlderThanDays(e, x, days) == e.at - e.before[x].mtime > days * MinutesPerDay

ExpiredAt(e) ==
    { x \in DOMAIN e.before :
        OlderThanDays(e, x, NumberOf(env.RETENTION_DAYS)) }

\* C7 as stated: every cleanup removes exactly the children of the backup root
\* whose modification time is more than RETENTION_DAYS days before the time
\* of the scan.
C7_RemovesEveryExpiredFolder ==
    \A r \in Runs :
        \A i \in 1..Len(Cleanups(r)) :
            IsNumber(env.RETENTION_DAYS) =>
                Cleanups(r)[i].removed = ExpiredAt(Cleanups(r)[i])

\* C7 as amended: a cleanup never removes a folder that is not older than
\* RETENTION_DAYS days; when no filesystem call of the scan throws it removes
\* every older one; when one throws, exactly the older folders listed before
\* the failing entry have been removed.
C7_RemovesExpiredUnlessScanThrows ==
    \A r \in Runs :
        \A i \in 1..Len(Cleanups(r)) :
            LET e == Cleanups(r)[i]
            IN  IsNumber(env.RETENTION_DAYS) =>
                  /\ e.removed \subseteq ExpiredAt(e)
                  /\ ~e.threw => e.removed = ExpiredAt(e)
                  /\ e.threw => e.removed = ExpiredAt(e) \cap e.scanned

\* retention 7 with folders aged exactly 6, 7 and 8 days at the time of the
\* scan: only the 8-day-old folder is removed
C7_Witness ==
    \E r \in Runs :
        /\ env.RETENTION_DAYS = <<"7">>
        /\ Len(Cleanups(r)) = 1
        /\ LET e == Cleanups(r)[1]
               Aged(days) ==
                   { x \in DOMAIN e.before :
                       e.at - e.before[x].mtime = days * MinutesPerDay }
           IN  /\ ~e.threw
               /\ Aged(6) # {} /\ Aged(7) # {} /\ Aged(8) # {}
               /\ e.removed = Aged(8)
               /\ Aged(6) \cup Aged(7) \subseteq DOMAIN dirs

---------------------------------------------------------------------------
(* Archive path (checked under SpecPath) *)

Started(r) == runs[r].pc # "idle"

\* the calendar day, hour and minute of an instant, as numbers
DayHourMinute(t) ==
    <<t \div MinutesPerDay, (t % MinutesPerDay) \div MinutesPerHour,
      t % MinutesPerHour>>

\* C9: the archive path of a run is <root>/<date>/<hour>/backup_<date>_<hour>-
\* <minute>.gz, the folder <root>/<date>/<hour> exists once the run has started,
\* and two runs have the same archive path exactly when they started in the
\* same minute of the same hour of the same day.
C9_ArchivePathPerMinute ==
    \A r \in Runs :
        Started(r) =>
            /\ runs[r].archiveFile =
                   BACKUP_DIR \o <<"/">> \o runs[r].date \o <<"/">> \o runs[r].hour
                     \o <<"/", "backup_">> \o runs[r].date \o <<"_">> \o runs[r].hour
                     \o <<"-">> \o MinuteOf(runs[r].started) \o <<".gz">>
            /\ runs[r].date = IsoDate(runs[r].started)
            /\ runs[r].hour = HourOf(runs[r].started)
            /\ Len(runs[r].date) = 2 /\ Len(runs[r].hour) = 2
            /\ runs[r].date \in DOMAIN dirs /\ runs[r].hour \in dirs[runs[r].date].hours
            /\ \A q \in Runs :
                  Started(q) =>
                      ( runs[r].archiveFile = runs[q].archiveFile
                          <=> DayHourMinute(runs[r].started)
                                = DayHourMinute(runs[q].started) )

C9_Witness ==
    \E r, q, p \in Runs :
        /\ r # q /\ Started(r) /\ Started(q) /\ Started(p)
        /\ runs[r].started = runs[q].started
        /\ runs[r].archiveFile = runs[q].archiveFile
        /\ DayHourMinute(runs[p].started)[1] # DayHourMinute(runs[r].started)[1]
        /\ DayHourMinute(runs[p].started)[2] = DayHourMinute(runs[r].started)[2]
        /\ DayHourMinute(runs[p].started)[3] = DayHourMinute(runs[r].started)[3]
        /\ runs[p].archiveFile # runs[r].archiveFile

---------------------------------------------------------------------------
(* Overlapping runs (checked under SpecOverlap) *)

InFlight(r) == Started(r) /\ ~Finished(r)

\* the continuation a run is waiting for can be taken in the current state
PendingStepEnabled(r) ==
    /\ runs[r].pc = "dump" => ENABLED DumpExit(r)
    /\ runs[r].pc = "upload" => ENABLED UploadReturn(r)
    /\ runs[r].pc \in {"email_fail", "email_ok"} => ENABLED EmailReturn(r)
    /\ runs[r].rep = "exec" => ENABLED ReplicateExit(r)
    /\ runs[r].rep \in {"email_fail", "email_ok"} => ENABLED ReplicateEmailReturn(r)

IsPrefix(a, b) == Len(a) <= Len(b) /\ SubSeq(b, 1, Len(a)) = a

\* C11: with runs overlapping under every interleaving, the timer starts a new
\* run whatever the runs in flight are doing, the step a run is waiting for is
\* never blocked by another run, a step changes the record of one run only and
\* only extends its log, and a finished run whose dump succeeded has made its
\* own upload call, cleanup pass and one notification, naming its own archive
\* file under the backup root, and its replication subprocess exactly when a
\* secondary connection string is configured.
C11_OverlappingRunsIndependent ==
    /\ [](\A r \in Runs :
            /\ PendingStepEnabled(r)
            /\ (booted /\ runs[r].pc = "idle") => ENABLED CronTick
            /\ (Finished(r) /\ DumpSucceeded(r)) =>
                  /\ Count(r, "upload") = 1
                  /\ Events(r, "upload")[1].file = ArchiveFile(runs[r].started)
                  /\ Count(r, "cleanup") = 1
                  /\ Len(Mails(r)) = 1
                  /\ ReplicationStarted(r) <=> env.BACKUP_MONGO_URI
                  /\ SuccessMails(r) # <<>> =>
                        Contains(SuccessMails(r)[1].text,
                                 PathJoin(BACKUP_DIR, IsoDate(runs[r].started))))
    /\ [][\A r \in Runs :
            /\ IsPrefix(runs[r].log, runs'[r].log)
            /\ runs'[r] # runs[r] =>
                  \A q \in Runs \ {r} : runs'[q] = runs[q]]_vars

\* the timer run has finished while the manual run is still waiting for its dump
C11_Witness ==
    \E r, q \in Runs :
        /\ runs[r].trigger = "manual" /\ runs[r].pc = "dump"
        /\ runs[q].trigger = "cron" /\ Finished(q) /\ DumpSucceeded(q)
        /\ Count(q, "cleanup") = 1 /\ Len(Mails(q)) = 1

---------------------------------------------------------------------------
(* Termination (checked under SpecLive) *)

IsCompletion(e) == e.ev \in {"exit", "upload_return", "sendMail_return"}

CountCmd(r, kind, cmd) ==
    Len(SelectSeq(runs[r].log, LAMBDA e : e.ev = kind /\ e.cmd = cmd))

\* C12: a run makes each of its calls at most once (no retry); its record
\* changes only when runBackup is entered or when one of its pending calls
\* completes, so a call that never completes leaves the run where it is (no
\* timeout); and when every call eventually completes, a started run
\* eventually has no step pending.
C12_NoRetryNoTimeout ==
    /\ [](\A r \in Runs :
            /\ CountCmd(r, "exec", "dump") <= 1
            /\ CountCmd(r, "exec", "replicate") <= 1
            /\ Count(r, "upload") <= 1
            /\ Count(r, "sendMail") <= 1
            /\ CountCmd(r, "exit", "dump") <= CountCmd(r, "exec", "dump")
            /\ CountCmd(r, "exit", "replicate") <= CountCmd(r, "exec", "replicate")
            /\ Count(r, "upload_return") <= Count(r, "upload")
            /\ Count(r, "sendMail_return") <= Count(r, "sendMail"))
    /\ [][\A r \in Runs :
            runs'[r] # runs[r] =>
                \/ ~Started(r) /\ runs'[r].log = <<ExecEvent("dump")>>
                \/ /\ Len(runs'[r].log) > Len(runs[r].log)
                   /\ IsPrefix(runs[r].log, runs'[r].log)
                   /\ IsCompletion(runs'[r].log[Len(runs[r].log) + 1])]_vars
    /\ \A r \in LiveRuns : Started(r) ~> Finished(r)

\* every call of the run has completed, some of them with a failure
C12_Witness ==
    \E r \in Runs :
        /\ Finished(r) /\ UploadFailed(r) /\ ReplicationSucceeded(r)
        /\ CountCmd(r, "exit", "dump") = 1 /\ CountCmd(r, "exit", "replicate") = 1
        /\ Count(r, "upload_return") = 1 /\ Count(r, "sendMail_return") = 1
        /\ ~Events(r, "sendMail_return")[1].ok

---------------------------------------------------------------------------
(* Triggers (checked under SpecOverlap) *)

ManualRuns == { r \in Runs : Started(r) /\ runs[r].trigger = "manual" }

CronRuns == { r \in Runs : Started(r) /\ runs[r].trigger = "cron" }

\* full hours that have begun since the process started
TicksSince(t0, t) == (t \div MinutesPerHour) - (t0 \div MinutesPerHour)

\* the step starts exactly one run, with the given trigger, at instant t
StartsOneRun(trigger, t) ==
    \E r \in Runs :
        /\ ~Started(r)
        /\ runs'[r].pc = "dump"
        /\ runs'[r].trigger = trigger
        /\ runs'[r].started = t
        /\ \A q \in Runs \ {r} : runs'[q] = runs[q]

\* C13: once the module body has run there is exactly one manual run when the
\* flag is given, started at process start, and none otherwise; every other
\* run is a scheduled one, started on a full hour after process start, one
\* per timer tick; the module body starts one manual run with the flag and no
\* run without it, and every timer tick starts exactly one scheduled run.
C13_ManualOnceThenHourly ==
    /\ [](/\ Cardinality(ManualRuns) = IF argv /\ booted THEN 1 ELSE 0
          /\ \A r \in ManualRuns : runs[r].started = StartTime
          /\ ManualRuns \cup CronRuns = { r \in Runs : Started(r) }
          /\ \A r \in CronRuns :
                /\ runs[r].started % MinutesPerHour = 0
                /\ runs[r].started >= NextHour(StartTime)
                /\ \A q \in CronRuns : runs[q].started = runs[r].started => q = r
          /\ Cardinality(CronRuns) = TicksSince(StartTime, now)
          /\ (~argv /\ now < NextHour(StartTime)) =>
                \A r \in Runs : ~Started(r))
    /\ [][/\ (~booted /\ booted') =>
                IF argv THEN StartsOneRun("manual", now) ELSE runs' = runs
          /\ TicksSince(now, now') # 0 =>
                /\ TicksSince(now, now') = 1
                /\ StartsOneRun("cron", now')
          /\ (booted = booted' /\ TicksSince(now, now') = 0) =>
                \A r \in Runs : Started(r) <=> runs'[r].pc # "idle"]_vars

\* the flag was given: the manual run started at process start and a scheduled
\* run on the first full hour after it
C13_Witness ==
    /\ argv
    /\ \E r, q \in Runs :
          /\ ManualRuns = {r} /\ runs[r].started = StartTime
          /\ CronRuns = {q} /\ runs[q].started = NextHour(StartTime)

---------------------------------------------------------------------------
(* Order of the steps of a run (checked under SpecLive) *)

\* an event satisfying Test lies before position i of the log
Before(log, i, Test(_)) == \E j \in 1..(i - 1) : Test(log[j])

DumpInFlight(r) == CountCmd(r, "exec", "dump") > CountCmd(r, "exit", "dump")

UploadInFlight(r) == Count(r, "upload") > Count(r, "upload_return")

ReplicationInFlight(r) ==
    CountCmd(r, "exec", "replicate") > CountCmd(r, "exit", "replicate")

\* C14: a run makes its upload call once, in the callback of a dump that
\* succeeded and never otherwise; it starts the replication subprocess at most
\* once and only after the upload call has returned, with success or failure;
\* and at most one of its dump, upload and replication calls is in flight.
C14_StepsSequential ==
    \A r \in Runs :
        LET log == runs[r].log
        IN  /\ Count(r, "upload") = IF DumpSucceeded(r) THEN 1 ELSE 0
            /\ CountCmd(r, "exec", "replicate") <= 1
            /\ \A i \in 1..Len(log) :
                  /\ log[i].ev = "upload" =>
                        /\ i > 1
                        /\ IsExit(log[i - 1], "dump") /\ log[i - 1].err = "none"
                  /\ IsExec(log[i], "replicate") =>
                        /\ Before(log, i, LAMBDA e : e.ev = "upload")
                        /\ log[i - 1].ev = "upload_return"
            /\ Cardinality({ c \in {"dump", "upload", "replicate"} :
                    \/ c = "dump" /\ DumpInFlight(r)
                    \/ c = "upload" /\ UploadInFlight(r)
                    \/ c = "replicate" /\ ReplicationInFlight(r) }) <= 1

\* the replication is in flight after a dump that succeeded and an upload that
\* failed
C14_Witness ==
    \E r \in Runs :
        /\ ReplicationInFlight(r) /\ UploadFailed(r) /\ DumpSucceeded(r)
        /\ ~DumpInFlight(r) /\ ~UploadInFlight(r)

---------------------------------------------------------------------------
(* Failed notifications (checked under SpecLive) *)

MailFailed(r) == Has(r, LAMBDA e : e.ev = "sendMail_return" /\ ~e.ok)

MailSettled(r) == Count(r, "sendMail_return") > 0

\* C15: a run whose email send failed has made one sendMail call and no other
\* (no retry, no notification about the failure), and once the send has
\* settled the run is where a successful send would have left it: finished,
\* with the cleanup done exactly when the dump succeeded; in a file-only run
\* whose success email failed the cleanup has been performed.
C15_MailFailureSwallowed ==
    \A r \in Runs :
        MailFailed(r) =>
            /\ Len(Mails(r)) = 1
            /\ Count(r, "sendMail_return") = 1
            /\ Finished(r)
            /\ Count(r, "cleanup") = IF DumpSucceeded(r) THEN 1 ELSE 0
            /\ Count(r, "upload") = IF DumpSucceeded(r) THEN 1 ELSE 0
            /\ ReplicationStarted(r) <=> (DumpSucceeded(r) /\ env.BACKUP_MONGO_URI)
            /\ runs[r].log[Len(runs[r].log)].ev =
                  IF DumpSucceeded(r) /\ ~env.BACKUP_MONGO_URI
                  THEN "cleanup" ELSE "sendMail_return"

\* a file-only run with mail settings whose success email failed and whose
\* cleanup followed
C15_Witness ==
    \E r \in Runs :
        /\ env.EMAIL /\ ~env.BACKUP_MONGO_URI
        /\ MailFailed(r) /\ Len(SuccessMails(r)) = 1
        /\ Count(r, "cleanup") = 1 /\ Finished(r)

---------------------------------------------------------------------------
(* Errors of the cleanup (checked under SpecLive) *)

CleanupThrew(r) == Has(r, LAMBDA e : e.ev = "cleanup" /\ e.threw)

\* C16: in a run whose cleanup threw while listing, inspecting or deleting,
\* the cleanup is followed by nothing but the run's own replication callback:
\* no notification is made because of the error, a failure notification exists
\* only when the replication failed, the dump callback has ended normally, the
\* pending replication callback can still run, and the finished run has made
\* its one notification, a success when the replication succeeded or none
\* was configured.
C16_CleanupErrorsSwallowed ==
    \A r \in Runs :
        CleanupThrew(r) =>
            LET log == runs[r].log
                i == FirstIndex(log, LAMBDA e : e.ev = "cleanup")
            IN  /\ Count(r, "cleanup") = 1
                /\ CallbackDone(r)
                /\ i < Len(log) => IsExit(log[i + 1], "replicate")
                /\ Len(Mails(r)) <= 1
                /\ FailureMails(r) # <<>> <=>
                      (ReplicationFailed(r) /\ Len(Mails(r)) = 1)
                /\ ~env.BACKUP_MONGO_URI => Len(SuccessMails(r)) = 1
                /\ runs[r].rep = "exec" => ENABLED ReplicateExit(r)
                /\ env.BACKUP_MONGO_URI => runs[r].rep # "none"
                /\ Finished(r) =>
                      /\ Len(Mails(r)) = 1
                      /\ ReplicationSucceeded(r) => Len(SuccessMails(r)) = 1

\* the cleanup threw, and the replication callback of the same run then
\* reported success
C16_Witness ==
    \E r \in Runs :
        /\ CleanupThrew(r) /\ ReplicationSucceeded(r) /\ Finished(r)
        /\ Len(SuccessMails(r)) = 1 /\ FailureMails(r) = <<>>

---------------------------------------------------------------------------
(* The archive named in a success notification (checked under Spec) *)

\* the step appends a success notification to the log of run r
SendsSuccessMail(r) ==
    /\ Len(runs'[r].log) > Len(runs[r].log)
    /\ \E i \in (Len(runs[r].log) + 1)..Len(runs'[r].log) :
          /\ runs'[r].log[i].ev = "sendMail"
          /\ IsSuccessSubject(runs'[r].log[i].subject)

\* C17: at every step in which a run sends a success notification, the
\* archive file of the run, which the notification names, exists under the
\* backup root, both before and after the step.
C17_SuccessMailNamesExistingFile ==
    [][\A r \in Runs :
          SendsSuccessMail(r) =>
              /\ FileExists(dirs, runs[r].date, runs[r].archiveFile)
              /\ FileExists(dirs', runs[r].date, runs[r].archiveFile)]_vars

---------------------------------------------------------------------------
(* A scan that ends early (checked under SpecRetention) *)

\* the entries the scan did not reach: the failing one and those listed after
Unreached(e) == DOMAIN e.before \ e.scanned

\* folders of the snapshot older than the cutoff parseInt(RETENTION_DAYS) gives
CutoffPassed(e) ==
    { x \in DOMAIN e.before : IsOld(e.before[x].mtime, e.at, RetentionMs(env)) }

\* C18: in a cleanup that threw, at least one entry was not reached; the
\* folders removed are exactly the folders past the cutoff among the entries
\* listed before the failing one, and they are gone from the backup root; the
\* failing entry and every entry listed after it are still there, past the
\* cutoff or not; and the run makes no second pass.
C18_ErrorEndsScan ==
    \A r \in Runs :
        \A i \in 1..Len(Cleanups(r)) :
            LET e == Cleanups(r)[i]
            IN  e.threw =>
                  /\ Unreached(e) # {}
                  /\ e.removed = CutoffPassed(e) \cap e.scanned
                  /\ e.removed \cap DOMAIN dirs = {}
                  /\ Unreached(e) \subseteq DOMAIN dirs
                  /\ \A x \in Unreached(e) : dirs[x] = e.before[x]
                  /\ Len(Cleanups(r)) = 1

\* one folder past the cutoff was removed before the error, another one past
\* the cutoff was not reached and is still there
C18_Witness ==
    \E r \in Runs :
        /\ Len(Cleanups(r)) = 1
        /\ LET e == Cleanups(r)[1]
           IN  /\ e.threw
               /\ e.removed # {}
               /\ \E x \in Unreached(e) \cap CutoffPassed(e) : x \in DOMAIN dirs

---------------------------------------------------------------------------
(* The upload outcome and the rest of the run (checked under SpecLive) *)

\* the log with the outcome of the upload blanked
WithoutUploadOutcome(log) ==
    [ i \in 1..Len(log) |->
        IF log[i].ev = "upload_return" THEN [ev |-> "upload_return"] ELSE log[i] ]

\* the outcome the upload of run r had in this step
OutcomeTaken(r) == runs'[r].log[Len(runs[r].log) + 1].ok

\* what the step appended beyond what UploadSettled gives for outcome ok
BeyondSettled(r, ok) ==
    SubSeq(runs'[r].log,
           Len(UploadSettled(runs[r], ok, env, now).log) + 1, Len(runs'[r].log))

\* the cleanup pass e is one the code can make on the folders d at this time,
\* leaving the folders d2: it is fixed by the listing and the throwing call
IsCleanupOf(e, d, d2) ==
    \E listing \in ReaddirSync(d) :
      \E failAt \in FailPoints(listing) :
        LET res == CleanupOldBackups(d, now, RetentionMs(env), listing, failAt)
        IN  e = CleanupEvent(now, d, listing, failAt, res) /\ d2 = res.dirs

\* C19: take the step in which the upload of a run settles, and the same step
\* with the other upload outcome: the run is left at the same place, with the
\* same replication subprocess started and the same notification (subject and
\* text) sent, the logs differing in the recorded upload outcome alone; a
\* cleanup pass follows in the same stretch for both outcomes or for neither,
\* and the folders it removes are fixed by the folders present, the time, the
\* retention window, the listing order and the throwing call alone.
C19_UploadOutcomeIrrelevant ==
    [][\A r \in Runs :
          (runs[r].pc = "upload" /\ runs'[r] # runs[r]) =>
              LET taken == UploadSettled(runs[r], OutcomeTaken(r), env, now)
                  other == UploadSettled(runs[r], ~OutcomeTaken(r), env, now)
              IN  /\ other.pc = runs'[r].pc
                  /\ other.rep = runs'[r].rep
                  /\ other.cleanup = taken.cleanup
                  /\ WithoutUploadOutcome(other.log) =
                        WithoutUploadOutcome(taken.log)
                  /\ IsPrefix(taken.log, runs'[r].log)
                  /\ BeyondSettled(r, ~OutcomeTaken(r)) =
                        BeyondSettled(r, OutcomeTaken(r))
                  /\ IF other.cleanup
                     THEN /\ Len(BeyondSettled(r, OutcomeTaken(r))) = 1
                          /\ IsCleanupOf(BeyondSettled(r, OutcomeTaken(r))[1],
                                         dirs, dirs')
                     ELSE /\ BeyondSettled(r, OutcomeTaken(r)) = <<>>
                          /\ dirs' = dirs]_vars

\* the upload failed, and the run went on to start the replication, remove
\* an expired folder and send the success notification
C19_Witness ==
    \E r \in Runs :
        /\ UploadFailed(r) /\ Finished(r) /\ ReplicationSucceeded(r)
        /\ Len(SuccessMails(r)) = 1
        /\ Len(Cleanups(r)) = 1 /\ Cleanups(r)[1].removed # {}

====
